---- MODULE Spec2Model ----
(***************************************************************************)
(* Model of the pipeline driver go() of main.py: step selection from       *)
(* main.steps, the temporary directory, the six step blocks with their     *)
(* named runs and mlflow.run calls, and the rf_config.json side file.      *)
(*                                                                         *)
(* A Python string is a sequence of chunks (words and the separators ","   *)
(* and "/"), so that split, concatenation and path joining are computed on *)
(* the text and not assumed.  A Python value is a record [t, n, s]: t is   *)
(* its type, n its number (numbers are integers here; a float such as 0.2  *)
(* is scaled), s its text.                                                 *)
(***************************************************************************)
EXTENDS Integers, Sequences, FiniteSets, TLC

VARIABLES
    config,        \* the DictConfig handed to go(): field -> value
    store,         \* artifact store (external): names of the artifacts present
    environ,       \* os.environ: the two WANDB_* variables
    active_steps,  \* the list computed at line 29
    pc,            \* position of control in go()
    blk,           \* index in Blocks of the if-block control is at
    tmp_dir,       \* TRUE while the TemporaryDirectory of line 32 exists
    files,         \* file system: path -> content (paths that exist)
    rf_config_path,\* the local variable of line 102
    active_run,    \* name of the open mlflow run, or NoRun
    exc,           \* the exception propagating out of go(), or NoExc
    calls,         \* the mlflow.run calls made so far, in order
    trace,         \* history of the events of this invocation, in order
    cwd,           \* the working directory of the process
    first          \* what is kept of an earlier invocation, for comparison

vars == << config, store, environ, active_steps, pc, blk, tmp_dir, files,
           rf_config_path, active_run, exc, calls, trace, cwd, first >>

----------------------------------------------------------------------------
(* Bounds *)

\* the steps strings tried have at most this many comma-separated tokens
MaxTokens == 2

----------------------------------------------------------------------------
(* Python values and strings *)

Str(chunks) == [t |-> "str", n |-> 0, s |-> chunks]
Lit(w)      == Str(<< w >>)
Num(k)      == [t |-> "num", n |-> k, s |-> << >>]
Missing     == [t |-> "missing", n |-> 0, s |-> << >>]
None        == [t |-> "none", n |-> 0, s |-> << >>]

\* (mutant) the value handed over without str()
strOmitted(v) == v

\* str(v): a string is returned as it is, a number becomes its decimal text
str(v) == IF v.t = "str" THEN v ELSE Str(<< ToString(v.n) >>)

\* f"{v}{rest}": formatting coerces v to text, then concatenates
Format(v, rest) == Str(str(v).s \o rest)

\* os.path.join(a, b, ...): the parts separated by "/"
RECURSIVE PathJoin(_)
PathJoin(parts) ==
    IF Len(parts) = 1 THEN parts[1]
    ELSE parts[1] \o << "/" >> \o PathJoin(Tail(parts))

\* index of the first "," of s, or 0
RECURSIVE FirstComma(_, _)
FirstComma(s, i) ==
    IF i > Len(s) THEN 0
    ELSE IF s[i] = "," THEN i
    ELSE FirstComma(s, i + 1)

\* s.split(","): always at least one token; "" gives [""]
RECURSIVE Split(_)
Split(s) ==
    LET i == FirstComma(s, 1) IN
    IF i = 0 THEN << s >>
    ELSE << SubSeq(s, 1, i - 1) >> \o Split(SubSeq(s, i + 1, Len(s)))

\* x in lst, for a Python list
Contains(lst, x) == \E i \in 1..Len(lst) : lst[i] = x

----------------------------------------------------------------------------
(* The step lists *)

\* (mutant) the held-back step listed with the others
_stepsWithTest == << << "download" >>, << "basic_cleaning" >>, << "data_check" >>,
                     << "data_split" >>, << "train_random_forest" >>,
                     << "test_regression_model" >> >>

\* _steps: what "all" stands for
_steps == << << "download" >>, << "basic_cleaning" >>, << "data_check" >>,
             << "data_split" >>, << "train_random_forest" >> >>

\* (mutant) the training block moved in front of the data_split block
BlocksTrainBeforeSplit == << "download", "basic_cleaning", "data_check",
                             "train_random_forest", "data_split",
                             "test_regression_model" >>

\* (mutant) the data_split block moved in front of the download block
BlocksSplitFirst == << "data_split", "download", "basic_cleaning", "data_check",
                       "train_random_forest", "test_regression_model" >>

\* the if-blocks of go(), in the order they stand in the function
Blocks == << "download", "basic_cleaning", "data_check", "data_split",
             "train_random_forest", "test_regression_model" >>

NBlocks == Len(Blocks)

Registry == { Blocks[i] : i \in 1..NBlocks }

\* (mutant) a selection that drops the whole request when a token is no
\* step name
SelectActiveStrict(steps_par) ==
    IF steps_par = << "all" >> THEN _steps
    ELSE IF \A i \in 1..Len(Split(steps_par)) :
               \E j \in 1..Len(Blocks) : Split(steps_par)[i] = << Blocks[j] >>
         THEN Split(steps_par)
         ELSE << >>

\* (mutant) an empty request taken for "all"
SelectActiveEmptyIsAll(steps_par) ==
    IF steps_par = << "all" >> \/ steps_par = << >> THEN _steps
    ELSE Split(steps_par)

\* active_steps = steps_par.split(",") if steps_par != "all" else _steps
SelectActive(steps_par) ==
    IF steps_par # << "all" >> THEN Split(steps_par) ELSE _steps

\* the condition of each if-block: "<name>" in active_steps
IsActive(step, active) == Contains(active, << step >>)

----------------------------------------------------------------------------
(* The configuration *)

Fields == { "main.project_name", "main.experiment_name", "main.steps",
            "main.components_repository", "etl.sample", "etl.min_price",
            "etl.max_price", "data_check.kl_threshold", "modeling.test_size",
            "modeling.random_seed", "modeling.stratify_by",
            "modeling.val_size", "modeling.max_tfidf_features",
            "modeling.random_forest" }

\* modeling.random_forest: the items of the nested mapping, << key, value >>
random_forest == << << Lit("n_estimators"), Num(100) >>,
                    << Lit("max_depth"), Num(15) >>,
                    << Lit("criterion"), Lit("squared_error") >>,
                    << Lit("max_features"), Num(5) >> >>

\* a configuration with every field present; main.steps is set by Init
BaseConfig ==
    [ f \in Fields |->
        CASE f = "main.project_name"           -> Lit("nyc_airbnb")
          [] f = "main.experiment_name"        -> Lit("development")
          [] f = "main.steps"                  -> Lit("all")
          [] f = "main.components_repository"  -> Lit("<components_repository>")
          [] f = "etl.sample"                  -> Lit("sample1.csv")
          [] f = "etl.min_price"               -> Num(10)
          [] f = "etl.max_price"               -> Num(350)
          [] f = "data_check.kl_threshold"     -> Num(2)
          [] f = "modeling.test_size"          -> Num(2)
          [] f = "modeling.random_seed"        -> Num(42)
          [] f = "modeling.stratify_by"        -> Lit("neighbourhood_group")
          [] f = "modeling.val_size"           -> Num(2)
          [] f = "modeling.max_tfidf_features" -> Num(5)
          [] f = "modeling.random_forest"      -> [t |-> "dict", n |-> 0, s |-> random_forest] ]

\* the tokens a steps string is made of: a step name, a name that is no step,
\* or nothing (as in "a,,b" and "")
Tokens == { << w >> : w \in Registry \cup { "nonexistent_step" } } \cup { << >> }

RECURSIVE Join(_)
Join(ts) ==
    IF Len(ts) = 1 THEN ts[1] ELSE ts[1] \o << "," >> \o Join(Tail(ts))

\* the steps strings tried: "all", and every list of 1..MaxTokens tokens
StepsStrings ==
    { << "all" >> } \cup
    UNION { { Join(ts) : ts \in [1..n -> Tokens] } : n \in 1..MaxTokens }

\* the configurations tried: every field present, or exactly one absent
Configs ==
    UNION { { [BaseConfig EXCEPT !["main.steps"] = Str(sp)] } \cup
            { [BaseConfig EXCEPT !["main.steps"] = Str(sp), ![f] = Missing] :
                f \in Fields } : sp \in StepsStrings }

----------------------------------------------------------------------------
(* The file system and the artifact store *)

Cwd         == << "<cwd>" >>            \* the working directory of a run
OriginalCwd == << "<original_cwd>" >>   \* get_original_cwd()
TmpDirPath  == << "<tmp_dir>" >>        \* tmp_dir of line 32

\* os.path.abspath(rel): the working directory joined with rel
abspath(rel) == PathJoin(<< cwd, rel >>)

\* path lies inside directory dir
Under(path, dir) ==
    /\ Len(path) > Len(dir) + 1
    /\ SubSeq(path, 1, Len(dir) + 1) = dir \o << "/" >>

\* the key of a JSON object member: a str key as it is, a number as its text
JsonKey(k) == str(k)

\* (mutant) the last item is not written
JsonDumpDropsLast(items) ==
    [ i \in 1..(IF Len(items) = 0 THEN 0 ELSE Len(items) - 1) |->
        << str(items[i][1]), items[i][2] >> ]

\* json.dump(dict(items), fp): one member per item, keys made strings
JsonDump(items) ==
    [ i \in 1..Len(items) |-> << JsonKey(items[i][1]), items[i][2] >> ]

EmptyFile  == [written |-> FALSE, doc |-> << >>]
JsonFile(items) == [written |-> TRUE, doc |-> JsonDump(items)]

\* open(path, "w+"), then the content
WriteFile(fs, path, content) ==
    [ p \in DOMAIN fs \cup { path } |-> IF p = path THEN content ELSE fs[p] ]

\* TemporaryDirectory.__exit__: the directory and all it holds are removed
RemoveTree(fs, dir) ==
    [ p \in { q \in DOMAIN fs : ~Under(q, dir) } |-> fs[p] ]

NoFiles == [ p \in {} |-> EmptyFile ]

\* an artifact reference name:qualifier
Ref(name, q) == << name, ":", q >>

AllArtifacts == { Ref("sample.csv", "latest"), Ref("clean_sample.csv", "latest"),
                  Ref("clean_sample.csv", "reference"),
                  Ref("trainval_data.csv", "latest"),
                  Ref("test_data.csv", "latest"),
                  Ref("random_forest_export", "latest"),
                  Ref("random_forest_export", "prod") }

----------------------------------------------------------------------------
(* The six step blocks *)

NoRun == "<no run>"
NoExc == [kind |-> "none", at |-> ""]
ConfigMissing(where) == [kind |-> "ConfigMissing", at |-> where]
StepExecution(step)  == [kind |-> "StepExecution", at |-> step]

\* TRUE for the blocks whose mlflow.run stands inside "with mlflow.start_run"
HasRun(step) == step # "download"

\* (mutant) a run name copied from another block
RunNameCopied(step) == "basic_cleaning"

\* run_name of the block's mlflow.start_run
RunName(step) == step

\* the steps taken from the components repository; the others are local
Remote == { "download", "data_split", "test_regression_model" }

\* directory of the step under the components repository
Component(step) ==
    CASE step = "download"              -> "get_data"
      [] step = "data_split"            -> "train_val_test_split"
      [] step = "test_regression_model" -> "test_regression_model"

\* the uri argument of the block's mlflow.run
Uri(step, cfg) ==
    IF step \in Remote
    THEN Format(cfg["main.components_repository"], << "/", Component(step) >>)
    ELSE Str(PathJoin(<< OriginalCwd, << "src" >>, << step >> >>))

\* (mutant) every block given the environment of the local ones
EnvManagerAllLocal(step) == "local"

\* the version and env_manager arguments of the block's mlflow.run
Version(step)    == IF step \in Remote THEN Lit("main") ELSE None
EnvManager(step) == IF step \in Remote THEN "conda" ELSE "local"

\* the configuration fields the block's mlflow.run call reads, in the order
\* Python evaluates them
Reads(step) ==
    CASE step = "download" ->
            << "main.components_repository", "etl.sample" >>
      [] step = "basic_cleaning" ->
            << "etl.min_price", "etl.max_price" >>
      [] step = "data_check" ->
            << "data_check.kl_threshold", "etl.min_price", "etl.max_price" >>
      [] step = "data_split" ->
            << "main.components_repository", "modeling.test_size",
               "modeling.random_seed", "modeling.stratify_by" >>
      [] step = "train_random_forest" ->
            << "modeling.val_size", "modeling.random_seed",
               "modeling.stratify_by", "modeling.max_tfidf_features" >>
      [] step = "test_regression_model" ->
            << "main.components_repository" >>

\* the parameters argument of the block's mlflow.run
Params(step, cfg, rfpath) ==
    CASE step = "download" ->
            [ sample               |-> cfg["etl.sample"],
              artifact_name        |-> Lit("sample.csv"),
              artifact_type        |-> Lit("raw_data"),
              artifact_description |-> Lit("Raw file as downloaded") ]
      [] step = "basic_cleaning" ->
            [ input_artifact     |-> Str(Ref("sample.csv", "latest")),
              output_artifact    |-> Lit("clean_sample.csv"),
              output_type        |-> Lit("clean_data"),
              output_description |-> Lit("Data after basic cleaning"),
              min_price          |-> cfg["etl.min_price"],
              max_price          |-> cfg["etl.max_price"] ]
      [] step = "data_check" ->
            [ csv          |-> Str(Ref("clean_sample.csv", "latest")),
              ref          |-> Str(Ref("clean_sample.csv", "reference")),
              kl_threshold |-> cfg["data_check.kl_threshold"],
              min_price    |-> cfg["etl.min_price"],
              max_price    |-> cfg["etl.max_price"] ]
      [] step = "data_split" ->
            [ input       |-> Str(Ref("clean_sample.csv", "latest")),
              test_size   |-> str(cfg["modeling.test_size"]),
              random_seed |-> str(cfg["modeling.random_seed"]),
              stratify_by |-> cfg["modeling.stratify_by"] ]
      [] step = "train_random_forest" ->
            [ trainval_artifact  |-> Str(Ref("trainval_data.csv", "latest")),
              val_size           |-> str(cfg["modeling.val_size"]),
              random_seed        |-> str(cfg["modeling.random_seed"]),
              stratify_by        |-> cfg["modeling.stratify_by"],
              rf_config          |-> rfpath,
              max_tfidf_features |-> str(cfg["modeling.max_tfidf_features"]),
              output_artifact    |-> Lit("random_forest_export") ]
      [] step = "test_regression_model" ->
            [ mlflow_model |-> Str(Ref("random_forest_export", "prod")),
              test_dataset |-> Str(Ref("test_data.csv", "latest")) ]

\* the artifact references the step resolves: its parameters of the shape
\* name:qualifier
Consumes(step) ==
    LET ps == Params(step, BaseConfig, None) IN
    { ps[k].s : k \in { j \in DOMAIN ps : ps[j].t = "str" /\ Len(ps[j].s) = 3 } }

\* the artifacts a step registers when it succeeds, as :latest
Produces(step) ==
    CASE step = "download"              -> { Ref("sample.csv", "latest") }
      [] step = "basic_cleaning"        -> { Ref("clean_sample.csv", "latest") }
      [] step = "data_check"            -> { }
      [] step = "data_split"            -> { Ref("trainval_data.csv", "latest"),
                                             Ref("test_data.csv", "latest") }
      [] step = "train_random_forest"   -> { Ref("random_forest_export", "latest") }
      [] step = "test_regression_model" -> { }

\* a step can succeed only when the artifacts it consumes are in the store
CanSucceed(step, st) == Consumes(step) \subseteq st

\* (mutant) an absent field is not noticed: its access yields a value
FirstMissingUnnoticed(fields, cfg) == ""

\* the first field of fields that cfg lacks, or "" when it has them all
RECURSIVE FirstMissing(_, _)
FirstMissing(fields, cfg) ==
    IF fields = << >> THEN ""
    ELSE IF cfg[Head(fields)] = Missing THEN Head(fields)
    ELSE FirstMissing(Tail(fields), cfg)

----------------------------------------------------------------------------
(* State *)

Event(ev, step) == [ev |-> ev, step |-> step]

\* nothing kept: no earlier invocation; st is the store the invocation
\* starts from
NoFirst(st) == [ran |-> FALSE, store |-> st, calls |-> << >>, exc |-> NoExc]

Init ==
    /\ config \in Configs
    /\ store \in { {}, AllArtifacts }
    /\ environ = [WANDB_PROJECT |-> None, WANDB_RUN_GROUP |-> None]
    /\ active_steps = << >>
    /\ pc = "start"
    /\ blk = 1
    /\ tmp_dir = FALSE
    /\ files = NoFiles
    /\ rf_config_path = None
    /\ active_run = NoRun
    /\ exc = NoExc
    /\ calls = << >>
    /\ trace = << >>
    /\ cwd = Cwd
    /\ first = NoFirst(store)

\* the step of the block control is at
Step == Blocks[blk]

\* (mutant) the side file is not written again when one is there already,
\* so that a second run depends on what the first left behind
FirstStageKeepsFile(step) ==
    IF step = "train_random_forest"
    THEN (IF abspath(<< "rf_config.json" >>) \in DOMAIN files
          THEN "start_run" ELSE "write_rf")
    ELSE IF HasRun(step) THEN "start_run"
    ELSE "call"

\* where control goes when a block's condition holds
FirstStage(step) ==
    IF step = "train_random_forest" THEN "write_rf"
    ELSE IF HasRun(step) THEN "start_run"
    ELSE "call"

\* (mutant) a driver that goes through the requested tokens: a block is
\* entered again while its name stands in active_steps more often than its
\* step was invoked
AdvanceRepeating(i) ==
    IF Cardinality({ k \in 1..Len(active_steps) : active_steps[k] = << Blocks[i] >> })
         > Cardinality({ k \in 1..Len(calls) : calls[k].step = Blocks[i] })
    THEN /\ blk' = i
         /\ pc' = "check"
    ELSE IF i < NBlocks
    THEN /\ blk' = i + 1
         /\ pc' = "check"
    ELSE /\ blk' = i
         /\ pc' = "exit_tmp"

\* control leaves the block at index i: the next if-block, or the end of the
\* with-block of the temporary directory
Advance(i) ==
    IF i < NBlocks
    THEN /\ blk' = i + 1
         /\ pc' = "check"
    ELSE /\ blk' = i
         /\ pc' = "exit_tmp"

\* (mutant) the exception is absorbed: the blocks go on as after a success
RaiseAbsorbed(e) ==
    /\ exc' = NoExc
    /\ pc' = IF active_run # NoRun THEN "end_run" ELSE "exit_tmp"

\* (mutant) the exception leaves go() with no __exit__ run on the way, as with
\* a directory made by mkdtemp and removed by a last statement
RaiseSkipsCleanup(e) ==
    /\ exc' = e
    /\ pc' = "returned"

\* an exception raised inside the with-block of the temporary directory
\* leaves through the open run's __exit__, if a run is open, and then
\* through the directory's
Raise(e) ==
    /\ exc' = e
    /\ pc' = IF active_run # NoRun THEN "end_run" ELSE "exit_tmp"

----------------------------------------------------------------------------
(* Actions: the statements of go() *)

\* os.environ["WANDB_PROJECT"] = ...; os.environ["WANDB_RUN_GROUP"] = ...
SetupEnv ==
    /\ pc = "start"
    /\ LET m == FirstMissing(<< "main.project_name", "main.experiment_name" >>,
                             config) IN
       /\ environ' =
            [ WANDB_PROJECT |->
                IF m = "main.project_name" THEN None
                ELSE config["main.project_name"],
              WANDB_RUN_GROUP |->
                IF m # "" THEN None ELSE config["main.experiment_name"] ]
       /\ IF m # ""
          THEN /\ exc' = ConfigMissing("setup")
               /\ pc' = "returned"
          ELSE /\ exc' = exc
               /\ pc' = "select"
    /\ UNCHANGED << cwd, first >>
    /\ UNCHANGED << config, store, active_steps, blk, tmp_dir, files,
                    rf_config_path, active_run, calls, trace >>

\* steps_par = config["main"]["steps"]; active_steps = ...
SelectSteps ==
    /\ pc = "select"
    /\ IF config["main.steps"] = Missing
       THEN /\ exc' = ConfigMissing("setup")
            /\ pc' = "returned"
            /\ UNCHANGED active_steps
       ELSE /\ active_steps' = SelectActive(config["main.steps"].s)
            /\ pc' = "enter_tmp"
            /\ UNCHANGED exc
    /\ UNCHANGED << cwd, first >>
    /\ UNCHANGED << config, store, environ, blk, tmp_dir, files,
                    rf_config_path, active_run, calls, trace >>

\* with tempfile.TemporaryDirectory() as tmp_dir: (entry)
EnterTmp ==
    /\ pc = "enter_tmp"
    /\ tmp_dir' = TRUE
    /\ blk' = 1
    /\ pc' = "check"
    /\ trace' = Append(trace, Event("enter_tmp", ""))
    /\ UNCHANGED << cwd, first >>
    /\ UNCHANGED << config, store, environ, active_steps, files,
                    rf_config_path, active_run, exc, calls >>

\* if "<step>" in active_steps:
CheckStep ==
    /\ pc = "check"
    /\ IF IsActive(Step, active_steps)
       THEN /\ pc' = FirstStage(Step)
            /\ UNCHANGED blk
       ELSE Advance(blk)
    /\ UNCHANGED << cwd, first >>
    /\ UNCHANGED << config, store, environ, active_steps, tmp_dir, files,
                    rf_config_path, active_run, exc, calls, trace >>

\* rf_config_path = os.path.abspath("rf_config.json"); open; json.dump
WriteRfConfig ==
    /\ pc = "write_rf"
    /\ LET path == abspath(<< "rf_config.json" >>) IN
       /\ rf_config_path' = Str(path)
       /\ IF config["modeling.random_forest"] = Missing
          THEN /\ files' = WriteFile(files, path, EmptyFile)
               /\ Raise(ConfigMissing(Step))
          ELSE /\ files' = WriteFile(files, path,
                                   JsonFile(config["modeling.random_forest"].s))
               /\ pc' = "start_run"
               /\ UNCHANGED exc
    /\ trace' = Append(trace, Event("write_rf", Step))
    /\ UNCHANGED << cwd, first >>
    /\ UNCHANGED << config, store, environ, active_steps, blk, tmp_dir,
                    active_run, calls >>

\* with mlflow.start_run(run_name=...): (entry)
StartRun ==
    /\ pc = "start_run"
    /\ active_run' = RunName(Step)
    /\ pc' = "call"
    /\ trace' = Append(trace, Event("start_run", Step))
    /\ UNCHANGED << cwd, first >>
    /\ UNCHANGED << config, store, environ, active_steps, blk, tmp_dir, files,
                    rf_config_path, exc, calls >>

\* (mutant) the driver looks the consumed artifacts up itself and raises a
\* resolution error, without a call, when one is absent
CallStepChecksStore ==
    /\ pc = "call"
    /\ IF FirstMissing(Reads(Step), config) # "" \/ ~(Consumes(Step) \subseteq store)
       THEN /\ Raise(ConfigMissing(Step))
            /\ trace' = Append(trace, Event("resolve", Step))
            /\ UNCHANGED calls
       ELSE /\ calls' = Append(calls,
                 [ step        |-> Step,
                   uri         |-> Uri(Step, config),
                   entry_point |-> "main",
                   version     |-> Version(Step),
                   env_manager |-> EnvManager(Step),
                   parameters  |-> Params(Step, config, rf_config_path),
                   run         |-> active_run ])
            /\ trace' = trace \o << Event("resolve", Step), Event("invoke", Step) >>
            /\ pc' = "running"
            /\ UNCHANGED exc
    /\ UNCHANGED << cwd, first >>
    /\ UNCHANGED << config, store, environ, active_steps, blk, tmp_dir, files,
                    rf_config_path, active_run >>

\* (mutant) the step is launched and not waited for, as with
\* synchronous=False: control goes on at once
CallStepAsync ==
    /\ pc = "call"
    /\ IF FirstMissing(Reads(Step), config) # ""
       THEN /\ Raise(ConfigMissing(Step))
            /\ trace' = Append(trace, Event("resolve", Step))
            /\ UNCHANGED << calls, blk >>
       ELSE /\ calls' = Append(calls,
                 [ step        |-> Step,
                   uri         |-> Uri(Step, config),
                   entry_point |-> "main",
                   version     |-> Version(Step),
                   env_manager |-> EnvManager(Step),
                   parameters  |-> Params(Step, config, rf_config_path),
                   run         |-> active_run ])
            /\ trace' = trace \o << Event("resolve", Step), Event("invoke", Step) >>
            /\ IF active_run # NoRun
               THEN /\ pc' = "end_run"
                    /\ UNCHANGED blk
               ELSE Advance(blk)
            /\ UNCHANGED exc
    /\ UNCHANGED << cwd, first >>
    /\ UNCHANGED << config, store, environ, active_steps, tmp_dir, files,
                    rf_config_path, active_run >>

\* mlflow.run(uri, entry_point, version, env_manager, parameters): the
\* arguments are evaluated, then the step is launched
CallStep ==
    /\ pc = "call"
    /\ IF FirstMissing(Reads(Step), config) # ""
       THEN /\ Raise(ConfigMissing(Step))
            /\ trace' = Append(trace, Event("resolve", Step))
            /\ UNCHANGED calls
       ELSE /\ calls' = Append(calls,
                 [ step        |-> Step,
                   uri         |-> Uri(Step, config),
                   entry_point |-> "main",
                   version     |-> Version(Step),
                   env_manager |-> EnvManager(Step),
                   parameters  |-> Params(Step, config, rf_config_path),
                   run         |-> active_run ])
            /\ trace' = trace \o << Event("resolve", Step), Event("invoke", Step) >>
            /\ pc' = "running"
            /\ UNCHANGED exc
    /\ UNCHANGED << cwd, first >>
    /\ UNCHANGED << config, store, environ, active_steps, blk, tmp_dir, files,
                    rf_config_path, active_run >>

\* the step's run completes: mlflow.run returns
StepSucceeds ==
    /\ pc = "running"
    /\ CanSucceed(Step, store)
    /\ store' = store \cup Produces(Step)
    /\ trace' = Append(trace, Event("success", Step))
    /\ IF active_run # NoRun
       THEN /\ pc' = "end_run"
            /\ UNCHANGED blk
       ELSE Advance(blk)
    /\ UNCHANGED << cwd, first >>
    /\ UNCHANGED << config, environ, active_steps, tmp_dir, files,
                    rf_config_path, active_run, exc, calls >>

\* the step's run fails: mlflow.run raises
StepFails ==
    /\ pc = "running"
    /\ Raise(StepExecution(Step))
    /\ trace' = Append(trace, Event("failure", Step))
    /\ UNCHANGED << cwd, first >>
    /\ UNCHANGED << config, store, environ, active_steps, blk, tmp_dir, files,
                    rf_config_path, active_run, calls >>

\* with mlflow.start_run(...): (exit, normal or by exception)
EndRun ==
    /\ pc = "end_run"
    /\ active_run' = NoRun
    /\ trace' = Append(trace, Event("end_run", Step))
    /\ IF exc = NoExc
       THEN Advance(blk)
       ELSE /\ pc' = "exit_tmp"
            /\ UNCHANGED blk
    /\ UNCHANGED << cwd, first >>
    /\ UNCHANGED << config, store, environ, active_steps, tmp_dir, files,
                    rf_config_path, exc, calls >>

\* with tempfile.TemporaryDirectory(): (exit, normal or by exception); go()
\* returns or raises
ExitTmp ==
    /\ pc = "exit_tmp"
    /\ tmp_dir' = FALSE
    /\ files' = RemoveTree(files, TmpDirPath)
    /\ pc' = "returned"
    /\ trace' = Append(trace, Event("exit_tmp", ""))
    /\ UNCHANGED << cwd, first >>
    /\ UNCHANGED << config, store, environ, active_steps, blk,
                    rf_config_path, active_run, exc, calls >>

Next ==
    \/ SetupEnv
    \/ SelectSteps
    \/ EnterTmp
    \/ CheckStep
    \/ WriteRfConfig
    \/ StartRun
    \/ CallStep
    \/ StepSucceeds
    \/ StepFails
    \/ EndRun
    \/ ExitTmp

Spec == Init /\ [][Next]_vars

\* the outcome of the invocation
Done   == pc = "returned" /\ exc = NoExc
Failed == pc = "returned" /\ exc # NoExc

TypeOK ==
    /\ pc \in { "start", "select", "enter_tmp", "check", "write_rf",
                "start_run", "call", "running", "end_run", "exit_tmp",
                "returned" }
    /\ blk \in 1..NBlocks
    /\ tmp_dir \in BOOLEAN
    /\ active_run \in Registry \cup { NoRun }

----------------------------------------------------------------------------
(* Vocabulary of the properties *)

\* the Registry in canonical order
CanonicalOrder == << "download", "basic_cleaning", "data_check", "data_split",
                     "train_random_forest", "test_regression_model" >>

StepNames == { CanonicalOrder[i] : i \in 1..Len(CanonicalOrder) }

\* the members of S in canonical order
RECURSIVE CanonFrom(_, _)
CanonFrom(S, i) ==
    IF i > Len(CanonicalOrder) THEN << >>
    ELSE (IF CanonicalOrder[i] \in S THEN << CanonicalOrder[i] >> ELSE << >>)
         \o CanonFrom(S, i + 1)

Canon(S) == CanonFrom(S, 1)

IsPrefix(a, b) == Len(a) <= Len(b) /\ SubSeq(b, 1, Len(a)) = a

\* the steps invoked so far, in the order of their invocation
Invoked == [ i \in 1..Len(calls) |-> calls[i].step ]

\* the text of main.steps, when the field is present
StepsPresent == config["main.steps"] # Missing
StepsText    == config["main.steps"].s

\* the text is a comma-separated list of step names: names at the odd
\* places, commas at the even ones
ValidList(s) ==
    /\ Len(s) % 2 = 1
    /\ \A i \in 1..Len(s) :
          IF i % 2 = 1 THEN s[i] \in StepNames ELSE s[i] = ","

\* the step names that stand in s as a whole token, between commas or ends
NamedIn(s) ==
    { w \in StepNames :
        \E i \in 1..Len(s) :
            /\ s[i] = w
            /\ i = 1 \/ s[i - 1] = ","
            /\ i = Len(s) \/ s[i + 1] = "," }

\* trace positions of the events of one kind
Has(ev, step) == \E i \in 1..Len(trace) : trace[i] = Event(ev, step)

----------------------------------------------------------------------------
(* C1 *)

\* C1: for a steps string that is a comma-separated list of Registry names, in
\* any token order, the steps invoked are at every moment a prefix of the
\* requested names in canonical order, and they are exactly those, in that
\* order, when the driver returns with success.
C1_RequestedInCanonicalOrder ==
    (StepsPresent /\ ValidList(StepsText)) =>
        LET want == Canon({ StepsText[i] : i \in 1..Len(StepsText) } \ { "," }) IN
        /\ IsPrefix(Invoked, want)
        /\ Done => Invoked = want

\* "data_split,download" has run to success: download, then data_split
C1_Witness ==
    /\ StepsPresent
    /\ StepsText = << "data_split", ",", "download" >>
    /\ Done
    /\ Invoked = << "download", "data_split" >>

----------------------------------------------------------------------------
(* C2 *)

\* the text has a token that is no Registry name (and is not the word "all")
HasUnknownToken ==
    /\ StepsPresent
    /\ StepsText # << "all" >>
    /\ ~ValidList(StepsText)

\* the text has a token that is a word outside the Registry
HasUnknownWord ==
    /\ HasUnknownToken
    /\ \E i \in 1..Len(StepsText) : StepsText[i] \notin StepNames \cup { "," }

\* C2 as stated: when a token of main.steps is a name that is not in the
\* Registry, the invocation fails and no step is invoked, the valid names of
\* the same request included.
C2_UnknownStepAborts ==
    HasUnknownWord =>
        /\ calls = << >>
        /\ ~Done

\* C2 (amended): a token of main.steps that is no Registry name raises no
\* error and is ignored: the steps invoked are the Registry names that stand
\* in the same request, in canonical order (a prefix of them at every moment,
\* all of them when the driver returns with success), and the only failures
\* are a missing configuration field and a failed step.
C2_UnknownStepIgnored ==
    HasUnknownToken =>
        LET want == Canon(NamedIn(StepsText)) IN
        /\ IsPrefix(Invoked, want)
        /\ Done => Invoked = want
        /\ exc.kind \in { "none", "ConfigMissing", "StepExecution" }
        /\ exc.kind = "ConfigMissing" =>
              \E f \in Fields : config[f] = Missing

\* "download,nonexistent_step" has run to success and invoked download
C2_Witness ==
    /\ StepsPresent
    /\ StepsText = << "download", ",", "nonexistent_step" >>
    /\ Done
    /\ Invoked = << "download" >>

----------------------------------------------------------------------------
(* C3 *)

\* C3: with main.steps = "all" the selection is download, basic_cleaning,
\* data_check, data_split, train_random_forest: these are invoked in that
\* order (all five when the driver returns with success) and
\* test_regression_model never is; with main.steps = "test_regression_model"
\* no step but test_regression_model is invoked, and it is when the driver
\* returns with success.
C3_AllExcludesTest ==
    /\ (StepsPresent /\ StepsText = << "all" >>) =>
          LET five == << "download", "basic_cleaning", "data_check",
                         "data_split", "train_random_forest" >> IN
          /\ IsPrefix(Invoked, five)
          /\ Done => Invoked = five
          /\ (pc = "enter_tmp" \/ Has("enter_tmp", "")) =>
                { active_steps[i] : i \in 1..Len(active_steps) }
                    = { << five[i] >> : i \in 1..5 }
    /\ (StepsPresent /\ StepsText = << "test_regression_model" >>) =>
          /\ IsPrefix(Invoked, << "test_regression_model" >>)
          /\ Done => Invoked = << "test_regression_model" >>

\* a run with "all" has returned with success after five invocations
C3_Witness ==
    /\ StepsPresent
    /\ StepsText = << "all" >>
    /\ Done
    /\ Len(calls) = 5
    /\ ~Has("invoke", "test_regression_model")

\* a run with "test_regression_model" has returned with success
C3_WitnessTestOnly ==
    /\ StepsPresent
    /\ StepsText = << "test_regression_model" >>
    /\ Done
    /\ Invoked = << "test_regression_model" >>

----------------------------------------------------------------------------
(* C4 *)

\* C4: once the invocation of a step has failed, the failure is the
\* exception go() raises, control only unwinds (the open run is closed, the
\* temporary directory left, go() has raised), and nothing else happens for
\* any step: no parameter resolution, no side file, no run, no invocation;
\* and no step is ever invoked twice, so the failed step is not retried.
C4_FailureIsFatal ==
    /\ \A i \in 1..Len(trace) :
          trace[i].ev = "failure" =>
              /\ exc = StepExecution(trace[i].step)
              /\ pc \in { "end_run", "exit_tmp", "returned" }
              /\ pc = "returned" => Failed
              /\ \A j \in (i + 1)..Len(trace) :
                    trace[j] \in { Event("end_run", trace[i].step),
                                   Event("exit_tmp", "") }
              /\ calls # << >>
              /\ calls[Len(calls)].step = trace[i].step
    /\ \A i, j \in 1..Len(calls) : i # j => calls[i].step # calls[j].step

\* "all": basic_cleaning has failed after download succeeded, and go() has
\* raised with three selected steps never invoked
C4_Witness ==
    /\ StepsPresent
    /\ StepsText = << "all" >>
    /\ Failed
    /\ exc = StepExecution("basic_cleaning")
    /\ Invoked = << "download", "basic_cleaning" >>

----------------------------------------------------------------------------
(* C5 *)

\* C5: the temporary directory exists in every state in which control is
\* inside its with-block, so in every state in which a step is being
\* invoked, and it does not exist once go() has returned or raised, whatever
\* the exit path: success, a failed step, a missing configuration field.
C5_ContextBracketsSteps ==
    /\ pc \in { "check", "write_rf", "start_run", "call", "running",
                "end_run", "exit_tmp" } => tmp_dir
    /\ pc = "returned" => ~tmp_dir

\* go() has raised a step's failure after the directory was made
C5_Witness ==
    /\ pc = "returned"
    /\ Has("enter_tmp", "")
    /\ exc.kind = "StepExecution"
    /\ ~tmp_dir

\* go() has returned with success after a step ran in the directory
C5_WitnessDone == Done /\ Has("enter_tmp", "") /\ calls # << >> /\ ~tmp_dir

\* go() has raised for a missing field of a step after the directory was made
C5_WitnessConfig ==
    /\ pc = "returned"
    /\ Has("enter_tmp", "")
    /\ exc.kind = "ConfigMissing"
    /\ ~tmp_dir

----------------------------------------------------------------------------
(* C6 *)

\* the files that hold (or are being given) the serialized hyperparameters
SideFiles == DOMAIN files

\* no configuration field is absent
AllPresent == \A f \in Fields : config[f] # Missing

\* C6 as stated (for a complete configuration): the side file is created
\* inside the temporary directory of the invocation, and the rf_config
\* parameter handed to the training step is the path of that file under that
\* directory.
C6_SideFileInContext ==
    AllPresent =>
    /\ \A p \in SideFiles : Under(p, TmpDirPath)
    /\ \A i \in 1..Len(calls) :
          calls[i].step = "train_random_forest" =>
              /\ Under(calls[i].parameters.rf_config.s, TmpDirPath)
              /\ calls[i].parameters.rf_config.s \in SideFiles

----------------------------------------------------------------------------
(* C7 *)

\* C7 as stated (for a complete configuration): the side file does not
\* exist while a step other than train_random_forest is being invoked, its
\* path is a parameter of no other step, and it does not exist once the
\* invocation has ended.
C7_SideFileOnlyForTraining ==
    AllPresent =>
    /\ (pc = "running" /\ Step # "train_random_forest") => SideFiles = { }
    /\ \A i \in 1..Len(calls) :
          calls[i].step # "train_random_forest" =>
              \A k \in DOMAIN calls[i].parameters :
                  calls[i].parameters[k].s \notin SideFiles
    /\ pc = "returned" => SideFiles = { }

----------------------------------------------------------------------------
(* C8 *)

\* C8 as stated: every invocation, of each of the six steps, is made inside
\* an open run named after the step.
C8_EveryStepInNamedRun ==
    /\ \A i \in 1..Len(calls) : calls[i].run = calls[i].step
    /\ pc = "running" => active_run = Step

\* the run the driver has open around the invocation of step
ExpectedRun(step) == IF step = "download" THEN NoRun ELSE step

\* C8 (amended): every invocation of basic_cleaning, data_check, data_split,
\* train_random_forest and test_regression_model is made inside an open run
\* named after the step, and that run is closed when the invocation has
\* ended, by success or by failure; download is invoked with no run opened
\* by the driver.
C8_NamedRunExceptDownload ==
    /\ \A i \in 1..Len(calls) : calls[i].run = ExpectedRun(calls[i].step)
    /\ pc = "running" => active_run = ExpectedRun(Step)
    /\ pc \in { "check", "write_rf", "start_run", "exit_tmp", "returned" } =>
          active_run = NoRun
    /\ \A s \in StepNames :
          (Has("start_run", s) /\ active_run # s) => Has("end_run", s)

\* download was invoked with no run, then basic_cleaning inside the run
\* "basic_cleaning", which is closed again
C8_Witness ==
    /\ Len(calls) = 2
    /\ calls[1].step = "download" /\ calls[1].run = NoRun
    /\ calls[2].step = "basic_cleaning" /\ calls[2].run = "basic_cleaning"
    /\ Has("end_run", "basic_cleaning")
    /\ active_run = NoRun

----------------------------------------------------------------------------
(* C9 *)

\* C9 as stated: every value of the parameter mapping handed to a step is a
\* string.
C9_AllParametersAreStrings ==
    \A i \in 1..Len(calls) :
        \A k \in DOMAIN calls[i].parameters : calls[i].parameters[k].t = "str"

\* the parameters that are handed over as the configuration gives them, and
\* the configuration field of each
PassedAsIs ==
    [ sample       |-> "etl.sample",
      min_price    |-> "etl.min_price",
      max_price    |-> "etl.max_price",
      kl_threshold |-> "data_check.kl_threshold",
      stratify_by  |-> "modeling.stratify_by" ]

\* the parameters that are coerced with str(), and the field of each
Coerced ==
    [ test_size          |-> "modeling.test_size",
      random_seed        |-> "modeling.random_seed",
      val_size           |-> "modeling.val_size",
      max_tfidf_features |-> "modeling.max_tfidf_features" ]

\* the decimal text of the numbers the configurations tried hold
DecimalText(k) ==
    CASE k = 2   -> "2"
      [] k = 5   -> "5"
      [] k = 10  -> "10"
      [] k = 42  -> "42"
      [] k = 350 -> "350"

\* C9 (amended): modeling.test_size, modeling.random_seed, modeling.val_size
\* and modeling.max_tfidf_features are coerced to their string representation
\* before the step is invoked; etl.sample, etl.min_price, etl.max_price,
\* data_check.kl_threshold and modeling.stratify_by are handed over unchanged,
\* with the type the configuration gives them (so a numeric min_price,
\* max_price or kl_threshold reaches basic_cleaning and data_check as a
\* number); every other parameter value is a string.
C9_CoercedOrPassedAsIs ==
    \A i \in 1..Len(calls) :
        LET ps == calls[i].parameters IN
        \A k \in DOMAIN ps :
            IF k \in DOMAIN PassedAsIs THEN ps[k] = config[PassedAsIs[k]]
            ELSE IF k \in DOMAIN Coerced
            THEN /\ ps[k].t = "str"
                 /\ config[Coerced[k]].t = "num" =>
                       ps[k].s = << DecimalText(config[Coerced[k]].n) >>
                 /\ config[Coerced[k]].t = "str" => ps[k] = config[Coerced[k]]
            ELSE ps[k].t = "str"

\* basic_cleaning was handed a number as min_price, and data_split then the
\* text "2" as test_size
C9_Witness ==
    /\ Len(calls) = 2
    /\ calls[1].step = "basic_cleaning"
    /\ calls[1].parameters.min_price = Num(10)
    /\ calls[2].step = "data_split"
    /\ calls[2].parameters.test_size = Lit("2")

----------------------------------------------------------------------------
(* C10 *)

\* the configuration fields each step requires
RequiredFields(step) ==
    CASE step = "download" ->
            { "main.components_repository", "etl.sample" }
      [] step = "basic_cleaning" ->
            { "etl.min_price", "etl.max_price" }
      [] step = "data_check" ->
            { "data_check.kl_threshold", "etl.min_price", "etl.max_price" }
      [] step = "data_split" ->
            { "main.components_repository", "modeling.test_size",
              "modeling.random_seed", "modeling.stratify_by" }
      [] step = "train_random_forest" ->
            { "modeling.random_forest", "modeling.val_size",
              "modeling.random_seed", "modeling.stratify_by",
              "modeling.max_tfidf_features" }
      [] step = "test_regression_model" ->
            { "main.components_repository" }

LacksField(step) == \E f \in RequiredFields(step) : config[f] = Missing

\* the steps the request selects
Selected ==
    IF ~StepsPresent THEN { }
    ELSE IF StepsText = << "all" >> THEN StepNames \ { "test_regression_model" }
    ELSE NamedIn(StepsText)

\* place of a step in the canonical order
Pos(step) == CHOOSE i \in 1..Len(CanonicalOrder) : CanonicalOrder[i] = step

\* the selected steps that come before step
SelectedBefore(step) == { e \in Selected : Pos(e) < Pos(step) }

\* C10: a step is invoked only with all its required fields present and no
\* parameter standing in for an absent one; a run in which a selected step
\* lacks a required field never ends in success and never invokes that step
\* or a later one; and when go() fails for a field a step lacks, that step is
\* selected and does lack a field, and every selected step before it has been
\* invoked and has completed, its artifacts in the store.
C10_MissingFieldStopsAtStep ==
    /\ \A i \in 1..Len(calls) :
          /\ ~LacksField(calls[i].step)
          /\ \A k \in DOMAIN calls[i].parameters :
                calls[i].parameters[k].t \notin { "missing", "none" }
          /\ calls[i].uri.t = "str"
    /\ \A s \in Selected :
          LacksField(s) =>
              /\ ~Done
              /\ \A i \in 1..Len(calls) : Pos(calls[i].step) < Pos(s)
    /\ (exc.kind = "ConfigMissing" /\ exc.at \in StepNames) =>
          /\ exc.at \in Selected
          /\ LacksField(exc.at)
          /\ Invoked = Canon(SelectedBefore(exc.at))
          /\ \A e \in SelectedBefore(exc.at) :
                /\ Has("success", e)
                /\ Produces(e) \subseteq store
    /\ (exc.kind = "ConfigMissing" /\ exc.at = "setup") =>
          /\ calls = << >>
          /\ \E f \in { "main.project_name", "main.experiment_name",
                       "main.steps" } : config[f] = Missing

\* "all" without etl.max_price: download has completed, basic_cleaning was
\* not invoked, go() has raised for the missing field
C10_Witness ==
    /\ StepsPresent
    /\ StepsText = << "all" >>
    /\ config["etl.max_price"] = Missing
    /\ pc = "returned"
    /\ exc = ConfigMissing("basic_cleaning")
    /\ Invoked = << "download" >>
    /\ Ref("sample.csv", "latest") \in store

----------------------------------------------------------------------------
(* C11 *)

\* the steps whose invocation has begun and has not ended
InProgress ==
    { s \in StepNames :
        Has("invoke", s) /\ ~Has("success", s) /\ ~Has("failure", s) }

\* the events with which the driver begins work on a step
BeginEvents == { "write_rf", "start_run", "resolve", "invoke" }

\* C11: at most one invocation is in progress in any state, and it is the one
\* the driver waits for; and whenever the driver begins anything for a step
\* (writing the side file, opening the run, resolving the parameters,
\* invoking), every invocation of another step made before has completed
\* with success in between.
C11_OneStepAtATime ==
    /\ Cardinality(InProgress) <= 1
    /\ pc = "running" <=> InProgress = { Step }
    /\ pc # "running" => InProgress = { }
    /\ \A j \in 1..Len(trace) :
          trace[j].ev \in BeginEvents =>
              \A i \in 1..(j - 1) :
                  (trace[i].ev = "invoke" /\ trace[i].step # trace[j].step) =>
                      \E k \in (i + 1)..(j - 1) :
                          trace[k] = Event("success", trace[i].step)

\* a second step is being invoked after the first has completed
C11_Witness ==
    /\ pc = "running"
    /\ Len(calls) = 2
    /\ Has("success", calls[1].step)
    /\ InProgress = { calls[2].step }

----------------------------------------------------------------------------
(* C12 *)

\* train_random_forest is requested without data_split, the store has no
\* trainval_data.csv, and the training step lacks no configuration field
TrainWithoutSplit ==
    /\ "train_random_forest" \in Selected
    /\ "data_split" \notin Selected
    /\ Ref("trainval_data.csv", "latest") \notin store
    /\ ~LacksField("train_random_forest")

\* control has come to the training block
AtTraining == Has("write_rf", "train_random_forest")

\* C12: when train_random_forest is selected, data_split is not and
\* trainval_data.csv is absent from the store, then once control has come to
\* the training block the side file is written with its content, no error
\* arises before the call, and the step is invoked as soon as control is past
\* the call; the invocation does not succeed, and the only error of the
\* training block is the failure of the invocation.
C12_AbsentArtifactFailsInStep ==
    (TrainWithoutSplit /\ AtTraining) =>
        /\ rf_config_path.s \in DOMAIN files
        /\ files[rf_config_path.s].written
        /\ pc \in { "running", "end_run", "exit_tmp", "returned" } =>
              /\ Has("invoke", "train_random_forest")
              /\ calls[Len(calls)].step = "train_random_forest"
              /\ calls[Len(calls)].parameters.trainval_artifact
                    = Str(Ref("trainval_data.csv", "latest"))
        /\ ~Has("success", "train_random_forest")
        /\ exc # NoExc => exc = StepExecution("train_random_forest")
        /\ pc = "returned" => exc = StepExecution("train_random_forest")

\* "train_random_forest" alone on an empty store: the step was invoked and
\* go() has raised its failure
C12_Witness ==
    /\ TrainWithoutSplit
    /\ StepsText = << "train_random_forest" >>
    /\ store = { }
    /\ Invoked = << "train_random_forest" >>
    /\ pc = "returned"
    /\ exc = StepExecution("train_random_forest")

----------------------------------------------------------------------------
(* C13: the side file for every hyperparameter mapping *)

\* the mappings tried have at most this many items
MaxItems == 2

\* keys and values of the mappings tried: a key is a string or a number (a
\* YAML key 5 is the integer 5), a value a number, a string or None
MappingKeys   == { Lit("n_estimators"), Lit("5"), Num(5) }
MappingValues == { Num(100), Lit("sqrt"), None }

\* the mappings tried: up to MaxItems items, no key twice
Mappings ==
    UNION { { m \in [1..n -> MappingKeys \X MappingValues] :
                \A i, j \in 1..n : i # j => m[i][1] # m[j][1] } : n \in 0..MaxItems }

\* go() is started for the training step alone, with one of the mappings
InitJson ==
    /\ config \in
          { [BaseConfig EXCEPT
                !["main.steps"] = Lit("train_random_forest"),
                !["modeling.random_forest"] = [t |-> "dict", n |-> 0, s |-> m]] :
              m \in Mappings }
    /\ store \in { {}, AllArtifacts }
    /\ environ = [WANDB_PROJECT |-> None, WANDB_RUN_GROUP |-> None]
    /\ active_steps = << >>
    /\ pc = "start"
    /\ blk = 1
    /\ tmp_dir = FALSE
    /\ files = NoFiles
    /\ rf_config_path = None
    /\ active_run = NoRun
    /\ exc = NoExc
    /\ calls = << >>
    /\ trace = << >>
    /\ cwd = Cwd
    /\ first = NoFirst(store)

SpecJson == InitJson /\ [][Next]_vars

\* a mapping as the set of its << key, value >> pairs
AsMap(items) == { << items[i][1], items[i][2] >> : i \in 1..Len(items) }

\* json.load of a document: its members as a mapping, the last of the members
\* with one key taken
LoadJson(doc) ==
    { << doc[i][1], doc[i][2] >> :
        i \in { h \in 1..Len(doc) :
                  \A j \in (h + 1)..Len(doc) : doc[j][1] # doc[h][1] } }

\* the side file has been written with its content
SideFileWritten ==
    /\ rf_config_path # None
    /\ rf_config_path.s \in DOMAIN files
    /\ files[rf_config_path.s].written

TheMapping == config["modeling.random_forest"].s
TheDoc     == files[rf_config_path.s].doc

\* C13 as stated: for every mapping, deserializing the side file gives back
\* the mapping.
C13_RoundTripEveryMapping ==
    SideFileWritten => LoadJson(TheDoc) = AsMap(TheMapping)

\* C13 (amended): the side file holds one member per item of the mapping, in
\* order, with the item's value unchanged; a string key is unchanged and a
\* key that is a number is held as its decimal text; so for every mapping
\* whose keys are all strings, deserializing the file gives back the mapping.
C13_RoundTripStringKeys ==
    SideFileWritten =>
        /\ Len(TheDoc) = Len(TheMapping)
        /\ \A i \in 1..Len(TheMapping) :
              /\ TheDoc[i][2] = TheMapping[i][2]
              /\ TheMapping[i][1].t = "str" => TheDoc[i][1] = TheMapping[i][1]
              /\ TheMapping[i][1].t = "num" =>
                    TheDoc[i][1] = Lit(DecimalText(TheMapping[i][1].n))
        /\ (\A i \in 1..Len(TheMapping) : TheMapping[i][1].t = "str") =>
              LoadJson(TheDoc) = AsMap(TheMapping)

\* the file for a mapping of two string keys has been written
C13_Witness ==
    /\ SideFileWritten
    /\ Len(TheMapping) = 2
    /\ \A i \in 1..2 : TheMapping[i][1].t = "str"
    /\ LoadJson(TheDoc) = AsMap(TheMapping)
    /\ Has("invoke", "train_random_forest")

----------------------------------------------------------------------------
(* C14: go() run twice *)

\* another working directory a run can be started in (Hydra makes one per run)
OtherCwd == << "<cwd 2>" >>
Cwds     == { Cwd, OtherCwd }

\* the configurations with no field absent
CompleteConfigs == { c \in Configs : \A f \in Fields : c[f] # Missing }

InitTwice ==
    /\ config \in CompleteConfigs
    /\ store \in { {}, AllArtifacts }
    /\ environ = [WANDB_PROJECT |-> None, WANDB_RUN_GROUP |-> None]
    /\ active_steps = << >>
    /\ pc = "start"
    /\ blk = 1
    /\ tmp_dir = FALSE
    /\ files = NoFiles
    /\ rf_config_path = None
    /\ active_run = NoRun
    /\ exc = NoExc
    /\ calls = << >>
    /\ trace = << >>
    /\ cwd = Cwd
    /\ first = NoFirst(store)

\* the program is started a second time: a new process, in some working
\* directory, with the same configuration and the artifact store as it was
\* before the first run; the files of the first run are still there
Restart ==
    /\ pc = "returned"
    /\ ~first.ran
    /\ first' = [ran |-> TRUE, store |-> first.store, calls |-> calls,
                 exc |-> exc]
    /\ store' = first.store
    /\ cwd' \in Cwds
    /\ environ' = [WANDB_PROJECT |-> None, WANDB_RUN_GROUP |-> None]
    /\ active_steps' = << >>
    /\ pc' = "start"
    /\ blk' = 1
    /\ rf_config_path' = None
    /\ exc' = NoExc
    /\ calls' = << >>
    /\ trace' = << >>
    /\ UNCHANGED << config, tmp_dir, files, active_run >>

NextTwice == Next \/ Restart

SpecTwice == InitTwice /\ [][NextTwice]_vars

\* a call with the rf_config path left out of the comparison
WithoutPath(call) ==
    IF call.step = "train_random_forest"
    THEN [call EXCEPT !.parameters.rf_config = None]
    ELSE call

WithoutPaths(cs) == [ i \in 1..Len(cs) |-> WithoutPath(cs[i]) ]

\* both runs are over and all their steps succeeded
BothDone == first.ran /\ first.exc = NoExc /\ Done

\* C14 as stated, for two runs in which every step succeeds: the second run
\* makes the same invocations as the first, with the same parameter mappings,
\* the rf_config path included.
C14_SameInvocations == BothDone => calls = first.calls

\* C14 (amended): two runs with the same configuration and the same upstream
\* artifact state make the same invocations in the same order, with the same
\* parameter mappings but for the rf_config path, up to the first step that
\* fails in either run (so the same invocations when the steps end the same
\* way in both); the rf_config path is rf_config.json under the working
\* directory of the run, and is the same in both runs when they are started
\* in the same working directory.
C14_SameUpToWorkingDirectory ==
    /\ \A i \in 1..Len(calls) :
          calls[i].step = "train_random_forest" =>
              calls[i].parameters.rf_config
                  = Str(cwd \o << "/", "rf_config.json" >>)
    /\ first.ran =>
          /\ \/ IsPrefix(WithoutPaths(calls), WithoutPaths(first.calls))
             \/ IsPrefix(WithoutPaths(first.calls), WithoutPaths(calls))
          /\ (pc = "returned" /\ exc = first.exc) =>
                /\ WithoutPaths(calls) = WithoutPaths(first.calls)
                /\ cwd = Cwd => calls = first.calls

\* two successful runs of the training step in different working directories
C14_Witness ==
    /\ BothDone
    /\ cwd = OtherCwd
    /\ Len(calls) = Len(first.calls)
    /\ \E i \in 1..Len(calls) :
          /\ calls[i].step = "train_random_forest"
          /\ calls[i].parameters.rf_config # first.calls[i].parameters.rf_config
          /\ WithoutPath(calls[i]) = WithoutPath(first.calls[i])

----------------------------------------------------------------------------
(* C15: a teardown that fails *)

\* the exception of a failed removal; the exception that was propagating
\* when it arose, if any, is kept as its context
TeardownError(prev) == [kind |-> "Teardown", at |-> prev.at, context |-> prev.kind]

\* (mutant) the failure of the removal is swallowed, as with
\* ignore_cleanup_errors=True
ExitTmpFailsIgnored ==
    /\ pc = "exit_tmp"
    /\ pc' = "returned"
    /\ trace' = Append(trace, Event("exit_tmp_failed", ""))
    /\ UNCHANGED << cwd, first >>
    /\ UNCHANGED << config, store, environ, active_steps, blk, tmp_dir, files,
                    rf_config_path, active_run, exc, calls >>

\* with tempfile.TemporaryDirectory(): (exit) the removal of the directory
\* fails: the directory stays, and the error of the removal is raised out of
\* the with-block in place of whatever was propagating
ExitTmpFails ==
    /\ pc = "exit_tmp"
    /\ exc' = TeardownError(exc)
    /\ pc' = "returned"
    /\ trace' = Append(trace, Event("exit_tmp_failed", ""))
    /\ UNCHANGED << cwd, first >>
    /\ UNCHANGED << config, store, environ, active_steps, blk, tmp_dir, files,
                    rf_config_path, active_run, calls >>

NextFault == Next \/ ExitTmpFails

SpecFault == Init /\ [][NextFault]_vars

TeardownFailed == Has("exit_tmp_failed", "")

\* every step that was invoked has succeeded, and none lacked a field
AllSucceeded ==
    /\ \A i \in 1..Len(calls) : Has("success", calls[i].step)
    /\ \A i \in 1..Len(trace) : trace[i].ev # "failure"
    /\ \A s \in Selected : ~LacksField(s)

\* C15 as stated: a failed removal of the temporary directory does not change
\* the outcome: a run whose steps all succeeded ends in success, and a run in
\* which a step failed raises that step's failure.
C15_TeardownFailureIsHarmless ==
    TeardownFailed =>
        /\ AllSucceeded => Done
        /\ \A s \in StepNames : Has("failure", s) => exc = StepExecution(s)

\* C15 (amended): a failed removal of the temporary directory is fatal: its
\* error is what go() raises, so a run whose steps all succeeded ends in
\* failure, and a run that had failed raises the removal's error with the
\* original failure kept only as its context; the directory is left behind.
\* The invocations made and the artifacts stored are not affected.
C15_TeardownFailureIsFatal ==
    TeardownFailed =>
        /\ pc = "returned"
        /\ Failed
        /\ exc.kind = "Teardown"
        /\ AllSucceeded => exc.context = "none"
        /\ \A s \in StepNames :
              Has("failure", s) =>
                  exc.context = "StepExecution" /\ exc.at = s
        /\ tmp_dir
        /\ Invoked = Canon({ calls[i].step : i \in 1..Len(calls) })

\* "all": the five steps succeeded, the removal failed, go() has raised
C15_Witness ==
    /\ TeardownFailed
    /\ StepsPresent
    /\ StepsText = << "all" >>
    /\ Len(calls) = 5
    /\ AllSucceeded
    /\ Failed

\* a step failed, then the removal failed
C15_WitnessAfterFailure ==
    /\ TeardownFailed
    /\ exc.kind = "Teardown"
    /\ exc.context = "StepExecution"

----------------------------------------------------------------------------
(* C16 *)

\* the call takes its step from the components repository of the configuration
FromCatalog(c) ==
    /\ config["main.components_repository"].t = "str"
    /\ Under(c.uri.s, config["main.components_repository"].s)

\* the call takes its step from a directory under the orchestrator's root
FromLocalDir(c) == Under(c.uri.s, OriginalCwd \o << "/", "src" >>)

\* C16: every invocation is of one of two kinds and never a mix: a step from
\* the components repository, with version "main" and a fresh conda
\* environment, or a step from a local directory under the orchestrator's
\* root, with no version and the caller's environment; download, data_split
\* and test_regression_model are of the first kind, the others of the second.
C16_TwoInvocationModes ==
    \A i \in 1..Len(calls) :
        LET c == calls[i] IN
        /\ c.entry_point = "main"
        /\ \/ /\ FromCatalog(c) /\ ~FromLocalDir(c)
              /\ c.version = Lit("main")
              /\ c.env_manager = "conda"
              /\ c.step \in { "download", "data_split", "test_regression_model" }
           \/ /\ FromLocalDir(c) /\ ~FromCatalog(c)
              /\ c.version = None
              /\ c.env_manager = "local"
              /\ c.step \in { "basic_cleaning", "data_check",
                              "train_random_forest" }

\* a step from the repository and a local step have both been invoked
C16_Witness ==
    /\ Len(calls) = 2
    /\ FromCatalog(calls[1]) /\ calls[1].env_manager = "conda"
    /\ FromLocalDir(calls[2]) /\ calls[2].env_manager = "local"
    /\ Done

----------------------------------------------------------------------------
(* C17 *)

\* main.steps is the empty string
EmptyRequest == StepsPresent /\ StepsText = << >>

\* project name and experiment name are present
SetupPresent ==
    /\ config["main.project_name"] # Missing
    /\ config["main.experiment_name"] # Missing

\* C17: when main.steps is the empty string no step is selected: no step is
\* invoked, no run is opened and no side file is written; the temporary
\* directory is made and removed; and go() returns with success, whatever
\* fields of the steps the configuration lacks.
C17_EmptySelectionIsDone ==
    EmptyRequest =>
        /\ calls = << >>
        /\ DOMAIN files = { }
        /\ active_run = NoRun
        /\ \A s \in StepNames : ~IsActive(s, active_steps)
        /\ \A i \in 1..Len(trace) : trace[i].ev \in { "enter_tmp", "exit_tmp" }
        /\ SetupPresent =>
              /\ exc = NoExc
              /\ pc = "returned" =>
                    /\ Done
                    /\ trace = << Event("enter_tmp", ""), Event("exit_tmp", "") >>
                    /\ ~tmp_dir

\* the empty request has returned with success, with a field of a step absent
C17_Witness ==
    /\ EmptyRequest
    /\ config["etl.sample"] = Missing
    /\ Done
    /\ trace = << Event("enter_tmp", ""), Event("exit_tmp", "") >>

----------------------------------------------------------------------------
(* C18 *)

\* how many of the events of the invocation are ev for step
Times(ev, step) ==
    Cardinality({ i \in 1..Len(trace) : trace[i] = Event(ev, step) })

\* C18: each step is invoked at most once in an invocation of the pipeline,
\* however often its name stands in main.steps: one call, one run and one
\* side file at most.
C18_AtMostOnce ==
    \A s \in StepNames :
        /\ Cardinality({ i \in 1..Len(calls) : calls[i].step = s }) <= 1
        /\ Times("invoke", s) <= 1
        /\ Times("start_run", s) <= 1
        /\ Times("write_rf", s) <= 1

\* "download,download" has returned with success after one invocation
C18_Witness ==
    /\ StepsPresent
    /\ StepsText = << "download", ",", "download" >>
    /\ Done
    /\ Invoked = << "download" >>

----------------------------------------------------------------------------
(* C19 *)

\* the steps that consume an artifact by its :latest qualifier: the parameter
\* that names it, the artifact, and the step that produces it
LatestInputs ==
    { [step |-> "basic_cleaning", param |-> "input_artifact",
       artifact |-> "sample.csv", producer |-> "download"],
      [step |-> "data_check", param |-> "csv",
       artifact |-> "clean_sample.csv", producer |-> "basic_cleaning"],
      [step |-> "data_split", param |-> "input",
       artifact |-> "clean_sample.csv", producer |-> "basic_cleaning"],
      [step |-> "train_random_forest", param |-> "trainval_artifact",
       artifact |-> "trainval_data.csv", producer |-> "data_split"] }

\* C19: in a run with main.steps = "all", whenever a step that consumes an
\* artifact by its :latest qualifier is invoked, it is handed that reference
\* and the step that produces the artifact was invoked and has completed
\* with success earlier in the same invocation.
C19_ProducerBeforeConsumer ==
    (StepsPresent /\ StepsText = << "all" >>) =>
        \A u \in LatestInputs :
            /\ \A j \in 1..Len(trace) :
                  trace[j] = Event("invoke", u.step) =>
                      \E i \in 1..(j - 1) :
                          /\ trace[i] = Event("success", u.producer)
                          /\ \E h \in 1..(i - 1) :
                                trace[h] = Event("invoke", u.producer)
            /\ \A i \in 1..Len(calls) :
                  calls[i].step = u.step =>
                      calls[i].parameters[u.param] = Str(Ref(u.artifact, "latest"))

\* "all": download, basic_cleaning, data_check and data_split have succeeded
\* in turn and train_random_forest is being invoked
C19_Witness ==
    /\ StepsPresent
    /\ StepsText = << "all" >>
    /\ Invoked = << "download", "basic_cleaning", "data_check", "data_split",
                    "train_random_forest" >>
    /\ pc = "running"
    /\ Step = "train_random_forest"
    /\ \A u \in LatestInputs : Has("success", u.producer)

====
